---- MODULE Spec2Model ----
(***************************************************************************)
(* Model of the skill validation engine of                                 *)
(* src/meta/skill-tester/scripts/test_skill.py (class SkillValidator and   *)
(* main).                                                                  *)
(*                                                                         *)
(* Text is modelled at two grains.  Names and descriptions are sequences   *)
(* of one-character strings, because the code matches them against         *)
(* character-level patterns and measures their length.  The text of        *)
(* SKILL.md is a sequence of tokens: the delimiter "---", a newline, a     *)
(* blank, and content tokens (a "key: value" line, a block the YAML        *)
(* decoder rejects, a run of words, a credential-like assignment, an       *)
(* inline code span, a markdown link).  Reference strings are sequences    *)
(* of chunks ("scripts/", "http", " ", "run.sh", ...), so that prefix      *)
(* tests and strip() act on chunk boundaries.                              *)
(***************************************************************************)
EXTENDS Integers, Sequences, FiniteSets, TLC

\* ------------------------------------------------------------------ bounds
\* validate() calls made on one SkillValidator object
MaxCalls == 2
\* processes run on one directory
MaxProcs == 2
\* reports printed over all processes
MaxOut == 2
\* names enumerated exhaustively over NameAlphabet up to this length
MaxNameLen == 2

\* ------------------------------------------------- constants of the program
NameLimit == 64
DescHardLimit == 1024
DescSoftLimit == 200
WordLimit == 5000

\* ----------------------------------------------------------- small helpers
Max(S) == CHOOSE x \in S : \A y \in S : y <= x
Min(S) == CHOOSE x \in S : \A y \in S : x <= y

Range(s) == {s[i] : i \in 1..Len(s)}

\* s with n copies of c appended up to total length n
Pad(s, n, c) == s \o [i \in 1..(n - Len(s)) |-> c]

\* Python: pat in s  (substring test on strings)
IsSubstring(pat, s) ==
    \E i \in 0..(Len(s) - Len(pat)) : \A j \in 1..Len(pat) : s[i + j] = pat[j]

UpperChars == <<"A","B","C","D","E","F","G","H","I","J","K","L","M",
                "N","O","P","Q","R","S","T","U","V","W","X","Y","Z">>
LowerChars == <<"a","b","c","d","e","f","g","h","i","j","k","l","m",
                "n","o","p","q","r","s","t","u","v","w","x","y","z">>
DigitChars == <<"0","1","2","3","4","5","6","7","8","9">>

\* Python: str.lower(), one character
LowerChar(c) ==
    IF \E i \in 1..26 : UpperChars[i] = c
    THEN LowerChars[CHOOSE i \in 1..26 : UpperChars[i] = c]
    ELSE c

Lower(s) == [i \in 1..Len(s) |-> LowerChar(s[i])]

\* the character class [a-z0-9]
IsLowerAlnum(c) == c \in Range(LowerChars) \cup Range(DigitChars)

\* ------------------------------------------------------------ YAML values
\* A decoded value: ty is the Python type ("str", "int", "list", "none",
\* "dict"); s holds the characters of a str, the digits of an int, the
\* elements of a list of strings.
Val(ty, s) == [ty |-> ty, s |-> s]
NoneVal == Val("none", <<>>)
StrVal(s) == Val("str", s)
IntVal == Val("int", <<"4", "2">>)
ListVal == Val("list", <<"name">>)

\* What the top-level document decodes to: a value, with the mapping m
\* when ty = "map".
Doc(ty, s, m) == [ty |-> ty, s |-> s, m |-> m]
None == Doc("none", <<>>, <<>>)

\* Python: str(v), as interpolated into an f-string
Str(v) ==
    CASE v.ty = "str" -> v.s
      [] v.ty = "int" -> v.s
      [] v.ty = "none" -> <<"None">>
      [] v.ty = "list" -> <<"[">> \o v.s \o <<"]">>
      [] OTHER -> <<"{}">>

\* ----------------------------------------------------------------- tokens
Tok(t, k, v, n, s, l) == [t |-> t, k |-> k, v |-> v, n |-> n, s |-> s, l |-> l]
D == Tok("---", "", NoneVal, 0, <<>>, <<>>)
NL == Tok("\n", "", NoneVal, 0, <<>>, <<>>)
SP == Tok(" ", "", NoneVal, 0, <<>>, <<>>)
\* a line "k: v"
KV(k, v) == Tok("kv", k, v, 0, <<>>, <<>>)
\* a line that is a YAML comment
COMMENT == Tok("comment", "", NoneVal, 0, <<>>, <<>>)
\* text the YAML decoder rejects (such as invalid indentation); s is the
\* decoder's message
BAD == Tok("bad", "", NoneVal, 0, <<"mapping values are not allowed here">>, <<>>)
\* a whole document that is one scalar or one flow sequence
SCALAR(v) == Tok("scalar", "", v, 0, <<>>, <<>>)
\* n words separated by single blanks
W(n) == Tok("words", "", NoneVal, n, <<>>, <<>>)
\* a credential-like assignment matching pattern p of credential_patterns
CRED(p) == Tok("cred", "", NoneVal, p, <<>>, <<>>)
\* an inline code span holding s between backticks
SPAN(s) == Tok("span", "", NoneVal, 0, s, <<>>)
\* a markdown link [l](s)
LINK(l, s) == Tok("link", "", NoneVal, 0, s, l)

IsNl(tok) == tok.t = "\n"
IsWs(tok) == tok.t \in {"\n", " "}


\* ------------------------------------------------------- document parser
\* last index of the whitespace run of c that starts at i (i - 1 if none)
WsEnd(c, i) ==
    CHOOSE j \in (i - 1)..Len(c) :
        /\ \A k \in i..j : IsWs(c[k])
        /\ (j = Len(c) \/ ~IsWs(c[j + 1]))

\* positions of the newlines of c within i..j
NlIn(c, i, j) == {p \in i..j : IsNl(c[p])}

\* "\n---\s*\n" matches at e
CloseAt(c, e) ==
    /\ e + 1 <= Len(c)
    /\ IsNl(c[e])
    /\ c[e + 1].t = "---"
    /\ NlIn(c, e + 2, WsEnd(c, e + 2)) # {}

\* positions p of the newline consumed by "^---\s*\n" after which the rest
\* of the pattern can match
OpenAt(c) ==
    IF Len(c) >= 1 /\ c[1].t = "---"
    THEN {p \in NlIn(c, 2, WsEnd(c, 2)) : \E e \in (p + 1)..Len(c) : CloseAt(c, e)}
    ELSE {}

\* re.match(r"^---\s*\n(.*?)\n---\s*\n(.*)$", content, re.DOTALL): the
\* greedy \s* keep the last newline of their run, the lazy group stops at
\* the first closing delimiter.
MatchFrontmatter(c) ==
    IF OpenAt(c) = {}
    THEN [ok |-> FALSE, fm |-> <<>>, body |-> <<>>]
    ELSE LET p == Max(OpenAt(c))
             e == Min({x \in (p + 1)..Len(c) : CloseAt(c, x)})
             q == Max(NlIn(c, e + 2, WsEnd(c, e + 2)))
         IN [ok |-> TRUE,
             fm |-> SubSeq(c, p + 1, e - 1),
             body |-> SubSeq(c, q + 1, Len(c))]

\* ----------------------------------------------------------- YAML decoder
\* the tokens of a metadata text that carry content
YamlContent(fm) == SelectSeq(fm, LAMBDA tok : ~IsWs(tok) /\ tok.t # "comment")

\* the mapping built from key/value lines, a later line replacing an
\* earlier one with the same key
YamlMap(kvs) ==
    [k \in {kvs[i].k : i \in 1..Len(kvs)} |->
        kvs[Max({i \in 1..Len(kvs) : kvs[i].k = k})].v]

\* yaml.safe_load(frontmatter_text): ok with the decoded document, or a
\* YAMLError with its message
SafeLoad(fm) ==
    LET c == YamlContent(fm)
        \* a leading "---" is a document start marker
        rest == IF Len(c) >= 1 /\ c[1].t = "---" THEN Tail(c) ELSE c
        types == {rest[i].t : i \in 1..Len(rest)}
    IN  IF \E i \in 1..Len(rest) : rest[i].t = "bad"
        THEN [ok |-> FALSE, doc |-> None,
              err |-> rest[Min({i \in 1..Len(rest) : rest[i].t = "bad"})].s]
        ELSE IF "---" \in types
        THEN [ok |-> FALSE, doc |-> None,
              err |-> <<"expected a single document in the stream">>]
        ELSE IF types = {}
        THEN [ok |-> TRUE, doc |-> None, err |-> <<>>]
        ELSE IF types = {"kv"}
        THEN [ok |-> TRUE, doc |-> Doc("map", <<>>, YamlMap(rest)), err |-> <<>>]
        ELSE IF "kv" \in types
        THEN [ok |-> FALSE, doc |-> None,
              err |-> <<"could not find expected ':'">>]
        ELSE IF Len(rest) = 1 /\ rest[1].t = "scalar"
        THEN [ok |-> TRUE, doc |-> Doc(rest[1].v.ty, rest[1].v.s, <<>>), err |-> <<>>]
        ELSE \* plain text: one multi-line plain scalar
             [ok |-> TRUE, doc |-> Doc("str", <<"t", "e", "x", "t">>, <<>>), err |-> <<>>]

\* ------------------------------------------------- Python on the document
KeyChars(key) ==
    IF key = "name" THEN <<"n", "a", "m", "e">>
    ELSE <<"d", "e", "s", "c", "r", "i", "p", "t", "i", "o", "n">>

\* Python: key in frontmatter.  "True", "False", or "TypeError" when the
\* document is not a container.
Contains(doc, key) ==
    CASE doc.ty = "map" -> IF key \in DOMAIN doc.m THEN "True" ELSE "False"
      [] doc.ty = "str" -> IF IsSubstring(KeyChars(key), doc.s) THEN "True" ELSE "False"
      [] doc.ty = "list" -> IF key \in Range(doc.s) THEN "True" ELSE "False"
      [] OTHER -> "TypeError"

\* Python: frontmatter[key] raises unless the document is a mapping
CanIndex(doc) == doc.ty = "map"


\* ------------------------------------------------------------ body text
IsSpaceChunk(ch) == ch \in {" ", "\n", "\t"}

CredentialKeyword(p) ==
    CASE p = 1 -> "password"
      [] p = 2 -> "api_key"
      [] p = 3 -> "secret"
      [] OTHER -> "token"

\* the text of a token, as chunks
Render(tok) ==
    CASE tok.t = "---" -> <<"---">>
      [] tok.t = "\n" -> <<"\n">>
      [] tok.t = " " -> <<" ">>
      [] tok.t = "kv" -> <<tok.k, ":", " ">> \o Str(tok.v)
      [] tok.t = "comment" -> <<"#">>
      [] tok.t = "bad" -> <<"\t", "x", ":", "y", ":">>
      [] tok.t = "scalar" -> Str(tok.v)
      [] tok.t = "words" -> [i \in 1..(2 * tok.n - 1) |-> IF i % 2 = 1 THEN "w" ELSE " "]
      [] tok.t = "cred" -> <<CredentialKeyword(tok.n), "=", "'x'">>
      [] tok.t = "span" -> <<"BACKTICK">> \o tok.s \o <<"BACKTICK">>
      [] OTHER -> <<"[">> \o tok.l \o <<"](">> \o tok.s \o <<")">>

\* whitespace-delimited words in a chunk sequence
ChunkWords(r) ==
    Cardinality({i \in 1..Len(r) :
        ~IsSpaceChunk(r[i]) /\ (i = 1 \/ IsSpaceChunk(r[i - 1]))})

InnerWords(tok) == IF tok.t = "words" THEN tok.n ELSE ChunkWords(Render(tok))

StartsNonSpace(tok) ==
    \/ tok.t = "words"
    \/ tok.t # "words" /\ Len(Render(tok)) > 0 /\ ~IsSpaceChunk(Render(tok)[1])

EndsNonSpace(tok) ==
    \/ tok.t = "words"
    \/ tok.t # "words" /\ Len(Render(tok)) > 0
          /\ ~IsSpaceChunk(Render(tok)[Len(Render(tok))])

RECURSIVE SumInnerWords(_, _)
SumInnerWords(b, i) ==
    IF i > Len(b) THEN 0 ELSE InnerWords(b[i]) + SumInnerWords(b, i + 1)

\* len(body.split()): adjacent tokens with no whitespace between them share
\* a word
WordCount(b) ==
    SumInnerWords(b, 1)
      - Cardinality({i \in 2..Len(b) : EndsNonSpace(b[i - 1]) /\ StartsNonSpace(b[i])})

\* re.search(credential_patterns[p], body, re.IGNORECASE)
CredentialSearch(b, p) == \E i \in 1..Len(b) : b[i].t = "cred" /\ b[i].n = p

\* ------------------------------------------------------- file references
\* Python: str.strip()
Strip(s) ==
    LET idx == {i \in 1..Len(s) : ~IsSpaceChunk(s[i])}
    IN  IF idx = {} THEN <<>> ELSE SubSeq(s, Min(idx), Max(idx))

\* Python: str.startswith("http")
StartsWithHttp(s) == Len(s) >= 1 /\ s[1] = "http"

\* "((?!http)[^\)]+)" matches the whole target
TargetMatches(s) == Len(s) >= 1 /\ ~StartsWithHttp(s)

\* "." does not match a newline
NoNewline(s) == "\n" \notin Range(s)

RECURSIVE Flatten(_, _, _)
Flatten(b, i, j) == IF i > j THEN <<>> ELSE Render(b[i]) \o Flatten(b, i + 1, j)

\* the link at j closes a match of the link pattern that opened at i < j:
\* the lazy label group runs over everything between, all on one line
ClosesFrom(b, i, j) ==
    /\ b[j].t = "link"
    /\ TargetMatches(b[j].s)
    /\ NoNewline(b[i].l \o b[i].s \o Flatten(b, i + 1, j - 1) \o b[j].l)

\* re.finditer(r"\[(.*?)\]\(((?!http)[^\)]+)\)", body): group 1 of each
\* match, in order
RECURSIVE LinkGroup1(_, _)
LinkGroup1(b, i) ==
    IF i > Len(b) THEN <<>>
    ELSE IF b[i].t # "link" THEN LinkGroup1(b, i + 1)
    ELSE IF NoNewline(b[i].l) /\ TargetMatches(b[i].s)
    THEN <<b[i].l>> \o LinkGroup1(b, i + 1)
    ELSE IF \E j \in (i + 1)..Len(b) : ClosesFrom(b, i, j)
    THEN LET j == Min({x \in (i + 1)..Len(b) : ClosesFrom(b, i, x)})
         IN  <<b[i].l \o <<"](">> \o b[i].s \o <<")">> \o Flatten(b, i + 1, j - 1)
                 \o <<"[">> \o b[j].l>> \o LinkGroup1(b, j + 1)
    ELSE LinkGroup1(b, i + 1)

\* group 2 of the same matches
RECURSIVE LinkGroup2(_, _)
LinkGroup2(b, i) ==
    IF i > Len(b) THEN <<>>
    ELSE IF b[i].t # "link" THEN LinkGroup2(b, i + 1)
    ELSE IF NoNewline(b[i].l) /\ TargetMatches(b[i].s)
    THEN <<b[i].s>> \o LinkGroup2(b, i + 1)
    ELSE IF \E j \in (i + 1)..Len(b) : ClosesFrom(b, i, j)
    THEN LET j == Min({x \in (i + 1)..Len(b) : ClosesFrom(b, i, x)})
         IN  <<b[j].s>> \o LinkGroup2(b, j + 1)
    ELSE LinkGroup2(b, i + 1)

CodePrefixes == {"scripts/", "templates/", "assets/", "references/"}

\* re.finditer over the four inline-code patterns (a backtick, one of the
\* prefixes, one or more characters that are not a backtick, a backtick):
\* group 1
SpanGroup1(b) ==
    {b[i].s : i \in {x \in 1..Len(b) :
        b[x].t = "span" /\ Len(b[x].s) >= 2 /\ b[x].s[1] \in CodePrefixes}}

\* file_ref = match.group(1) if pattern.startswith(r"\[") else match.group(1)
LinkFileRef(b) == Range(LinkGroup1(b, 1))

\* the set referenced_files after the extraction loops
ReferencedFiles(b) ==
    {r \in {Strip(g) : g \in LinkFileRef(b) \cup SpanGroup1(b)} :
        r # <<>> /\ ~StartsWithHttp(r)}

\* the orders in which a set of strings can be iterated
Perms(S) ==
    {f \in [1..Cardinality(S) -> S] : \A i, j \in 1..Cardinality(S) : f[i] = f[j] => i = j}

\* iteration order of the set S under the string hash seed of the process
SetOrder(S, seed) == SelectSeq(seed, LAMBDA x : x \in S)


\* ---------------------------------------------------------------- findings
\* One message of self.errors, self.warnings or self.passes: the fixed text
\* msg and what is interpolated into it (two strings and a number).
Finding(msg, a, b, n) == [msg |-> msg, a |-> a, b |-> b, n |-> n]

\* the three lists while a method runs; x is set once an exception is raised
Lists(e, w, p) == [e |-> e, w |-> w, p |-> p, x |-> FALSE]
AddError(st, f) == [st EXCEPT !.e = Append(@, f)]
AddWarning(st, f) == [st EXCEPT !.w = Append(@, f)]
AddPass(st, f) == [st EXCEPT !.p = Append(@, f)]
Raise(st) == [st EXCEPT !.x = TRUE]

\* ------------------------------------------------------------------ state
VARIABLES
    world,        \* the directory on disk: never written by the program
    procs,        \* processes started so far
    hashseed,     \* string hash seed of the running process, as an order
    pc,           \* position of the running process
    calls,        \* validate() calls made on the validator
    errors,       \* self.errors
    warnings,     \* self.warnings
    passes,       \* self.passes
    frontmatter,  \* local of validate()
    body,         \* local of validate()
    is_valid,     \* value returned by the last validate()
    exit_status,  \* exit status of the process, -1 while it runs
    out           \* reports printed so far, over all processes

vars == <<world, procs, hashseed, pc, calls, errors, warnings, passes,
          frontmatter, body, is_valid, exit_status, out>>

NoBody == [none |-> TRUE, text |-> <<>>]
SomeBody(b) == [none |-> FALSE, text |-> b]

\* skill_path.exists(), skill_path.is_dir()
PathExists(w) == w.dir # "missing"
PathIsDir(w) == w.dir = "dir"
\* (skill_path / "SKILL.md").exists(), .is_file()
SkillMdExists(w) == w.dir = "dir" /\ w.md # "missing"
SkillMdIsFile(w) == w.dir = "dir" /\ w.md \in {"file", "undecodable"}
\* (skill_path / file_ref).exists()
FileExists(w, file_ref) == file_ref \in w.files

\* ---------------------------------------------------- _check_directory_exists
CheckDirectoryExistsResult(st, w) ==
    IF ~PathExists(w)
    THEN AddError(st, Finding("Directory does not exist", w.dir_name, <<>>, 0))
    ELSE IF ~PathIsDir(w)
    THEN AddError(st, Finding("Path is not a directory", w.dir_name, <<>>, 0))
    ELSE AddPass(st, Finding("Directory exists", w.dir_name, <<>>, 0))

\* ----------------------------------------------------- _check_skill_md_exists
CheckSkillMdExistsResult(st, w) ==
    IF ~SkillMdExists(w)
    THEN AddError(st, Finding("SKILL.md file not found (case-sensitive)", <<>>, <<>>, 0))
    ELSE IF ~SkillMdIsFile(w)
    THEN AddError(st, Finding("SKILL.md exists but is not a file", <<>>, <<>>, 0))
    ELSE AddPass(st, Finding("SKILL.md file exists", <<>>, <<>>, 0))

\* the early return testing the directory only
MustReturnEarlyDirOnly(w) == ~PathExists(w)

\* the early return of validate()
MustReturnEarly(w) == ~PathExists(w) \/ ~SkillMdExists(w)

\* ------------------------------------------------------------ _parse_skill_md
\* the text of the exception read_text raises
ReadError(w) ==
    IF w.md = "notfile" THEN <<"[Errno 21] Is a directory">>
    ELSE <<"'utf-8' codec can't decode byte">>

\* the YAMLError handler returning (None, None) like the other failures
OnYamlErrorDropsBody(b) == NoBody

\* what the method returns when yaml.safe_load raises YAMLError
OnYamlError(b) == SomeBody(b)

\* the returned pair and the findings appended
ParseSkillMdResult(w) ==
    IF w.md # "file"
    THEN [fm |-> None, body |-> NoBody,
          e |-> <<Finding("Failed to read SKILL.md", ReadError(w), <<>>, 0)>>, p |-> <<>>]
    ELSE LET m == MatchFrontmatter(w.text)
         IN  IF ~m.ok
             THEN [fm |-> None, body |-> NoBody,
                   e |-> <<Finding("SKILL.md missing YAML frontmatter (must start with ---)",
                                   <<>>, <<>>, 0)>>,
                   p |-> <<>>]
             ELSE LET y == SafeLoad(m.fm)
                  IN  IF y.ok
                      THEN [fm |-> y.doc, body |-> SomeBody(m.body), e |-> <<>>,
                            p |-> <<Finding("YAML frontmatter is valid", <<>>, <<>>, 0)>>]
                      ELSE [fm |-> None, body |-> OnYamlError(m.body),
                            e |-> <<Finding("Invalid YAML frontmatter", y.err, <<>>, 0)>>,
                            p |-> <<>>]

\* ------------------------------------------------------- _validate_skill_name
\* re.match(r"^[a-z0-9]+(-[a-z0-9]+)*$", name); "$" also matches before a
\* newline that ends the string
HyphenCase(s) ==
    /\ Len(s) >= 1
    /\ \A i \in 1..Len(s) : IsLowerAlnum(s[i]) \/ s[i] = "-"
    /\ IsLowerAlnum(s[1]) /\ IsLowerAlnum(s[Len(s)])
    /\ \A i \in 1..(Len(s) - 1) : ~(s[i] = "-" /\ s[i + 1] = "-")

NamePatternMatches(name) ==
    \/ HyphenCase(name)
    \/ Len(name) >= 2 /\ name[Len(name)] = "\n" /\ HyphenCase(SubSeq(name, 1, Len(name) - 1))

ValidateSkillName(st, name) ==
    LET st1 == IF Len(name) > NameLimit
               THEN AddError(st, Finding("Skill name exceeds 64 characters", <<>>, <<>>, Len(name)))
               ELSE st
    IN  IF ~NamePatternMatches(name)
        THEN AddError(st1, Finding("Skill name must be hyphen-case (lowercase, hyphens only)",
                                   name, <<>>, 0))
        ELSE AddPass(st1, Finding("Skill name format is valid", name, <<>>, 0))

\* ------------------------------------------------ _validate_yaml_frontmatter
\* one round of the loop over required_fields
RequiredField(st, fm, field) ==
    IF st.x THEN st
    ELSE CASE Contains(fm, field) = "TypeError" -> Raise(st)
           [] Contains(fm, field) = "False" ->
                AddError(st, Finding("Missing required field in YAML", <<field>>, <<>>, 0))
           [] OTHER ->
                AddPass(st, Finding("Required field present", <<field>>, <<>>, 0))

NameField(st, fm) ==
    IF st.x \/ Contains(fm, "name") # "True" THEN st
    ELSE IF ~CanIndex(fm) THEN Raise(st)
    ELSE IF fm.m["name"].ty # "str"
    THEN AddError(st, Finding("Field 'name' must be a string", <<>>, <<>>, 0))
    ELSE ValidateSkillName(st, fm.m["name"].s)

\* the length checks as three separate tests
DescriptionLengthNotSuperseded(st, desc) ==
    LET st1 == IF Len(desc) > DescHardLimit
               THEN AddError(st, Finding("Description exceeds 1024 characters",
                                         <<>>, <<>>, Len(desc)))
               ELSE st
    IN  IF Len(desc) > DescSoftLimit
        THEN AddWarning(st1, Finding("Description is chars (recommended ~200)",
                                     <<>>, <<>>, Len(desc)))
        ELSE AddPass(st1, Finding("Description length appropriate", <<>>, <<>>, Len(desc)))

\* the length checks with the soft limit off by one
DescriptionLengthOffByOne(st, desc) ==
    IF Len(desc) > DescHardLimit
    THEN AddError(st, Finding("Description exceeds 1024 characters", <<>>, <<>>, Len(desc)))
    ELSE IF Len(desc) >= DescSoftLimit
    THEN AddWarning(st, Finding("Description is chars (recommended ~200)", <<>>, <<>>, Len(desc)))
    ELSE AddPass(st, Finding("Description length appropriate", <<>>, <<>>, Len(desc)))

\* the findings of the length checks on a string description
DescriptionLength(st, desc) ==
    IF Len(desc) > DescHardLimit
    THEN AddError(st, Finding("Description exceeds 1024 characters", <<>>, <<>>, Len(desc)))
    ELSE IF Len(desc) > DescSoftLimit
    THEN AddWarning(st, Finding("Description is chars (recommended ~200)", <<>>, <<>>, Len(desc)))
    ELSE AddPass(st, Finding("Description length appropriate", <<>>, <<>>, Len(desc)))

DescriptionField(st, fm) ==
    IF st.x \/ Contains(fm, "description") # "True" THEN st
    ELSE IF ~CanIndex(fm) THEN Raise(st)
    ELSE IF fm.m["description"].ty # "str"
    THEN AddError(st, Finding("Field 'description' must be a string", <<>>, <<>>, 0))
    ELSE DescriptionLength(st, fm.m["description"].s)

ValidateYamlFrontmatterResult(st, fm) ==
    DescriptionField(
        NameField(RequiredField(RequiredField(st, fm, "name"), fm, "description"), fm), fm)

\* --------------------------------------------------- _validate_name_matching
\* the comparison made without regard to case
ValidateNameMatchingIgnoringCase(st, fm, dir_name) ==
    CASE Contains(fm, "name") = "TypeError" -> Raise(st)
      [] Contains(fm, "name") = "False" -> st
      [] OTHER ->
           IF ~CanIndex(fm) THEN Raise(st)
           ELSE IF fm.m["name"].ty # "str" \/ Lower(fm.m["name"].s) # Lower(dir_name)
           THEN AddError(st, Finding("Directory name does not match YAML name",
                                     dir_name, Str(fm.m["name"]), 0))
           ELSE AddPass(st, Finding("Directory name matches YAML name",
                                    Str(fm.m["name"]), <<>>, 0))

ValidateNameMatchingResult(st, fm, dir_name) ==
    CASE Contains(fm, "name") = "TypeError" -> Raise(st)
      [] Contains(fm, "name") = "False" -> st
      [] OTHER ->
           IF ~CanIndex(fm) THEN Raise(st)
           ELSE IF fm.m["name"] # StrVal(dir_name)
           THEN AddError(st, Finding("Directory name does not match YAML name",
                                     dir_name, Str(fm.m["name"]), 0))
           ELSE AddPass(st, Finding("Directory name matches YAML name",
                                    Str(fm.m["name"]), <<>>, 0))

\* ----------------------------------------------------- _validate_description
WhenIndicators ==
    { <<"w", "h", "e", "n">>,
      <<"u", "s", "e", " ", "w", "h", "e", "n">>,
      <<"f", "o", "r">>,
      <<"t", "o", " ", "h", "e", "l", "p">>,
      <<"i", "f", " ", "y", "o", "u", " ", "n", "e", "e", "d">> }

HasWhen(desc) == \E indicator \in WhenIndicators : IsSubstring(indicator, desc)

ValidateDescriptionResult(st, fm) ==
    CASE Contains(fm, "description") = "TypeError" -> Raise(st)
      [] Contains(fm, "description") = "False" -> st
      [] OTHER ->
           IF ~CanIndex(fm) THEN Raise(st)
           \* .lower() exists on str only
           ELSE IF fm.m["description"].ty # "str" THEN Raise(st)
           ELSE IF ~HasWhen(Lower(fm.m["description"].s))
           THEN AddWarning(st, Finding(
                    "Description should explain WHEN to use the skill (contains no 'when' indicators)",
                    <<>>, <<>>, 0))
           ELSE AddPass(st, Finding("Description explains when to use the skill", <<>>, <<>>, 0))

\* ---------------------------------------------------- _validate_body_content
WordCountFinding(st, b) ==
    IF WordCount(b) > WordLimit
    THEN AddWarning(st, Finding("SKILL.md body has words (recommended <5,000)",
                                <<>>, <<>>, WordCount(b)))
    ELSE AddPass(st, Finding("SKILL.md body has words (<5,000)", <<>>, <<>>, WordCount(b)))

RECURSIVE CredentialFindings(_, _, _)
CredentialFindings(st, b, p) ==
    IF p > 4 THEN st
    ELSE CredentialFindings(
             IF CredentialSearch(b, p)
             THEN AddWarning(st, Finding("Possible hardcoded credential detected (pattern)",
                                         <<CredentialKeyword(p)>>, <<>>, 0))
             ELSE st,
             b, p + 1)

ValidateBodyContentResult(st, b) == CredentialFindings(WordCountFinding(st, b), b, 1)

\* ------------------------------------------------- _validate_file_references
\* the existence test inverted
FileRefFindingInverted(st, w, file_ref) ==
    IF FileExists(w, file_ref)
    THEN AddError(st, Finding("Referenced file does not exist", file_ref, <<>>, 0))
    ELSE AddPass(st, Finding("Referenced file exists", file_ref, <<>>, 0))

FileRefFinding(st, w, file_ref) ==
    IF ~FileExists(w, file_ref)
    THEN AddError(st, Finding("Referenced file does not exist", file_ref, <<>>, 0))
    ELSE AddPass(st, Finding("Referenced file exists", file_ref, <<>>, 0))

RECURSIVE CheckFileRefs(_, _, _, _)
CheckFileRefs(st, w, order, i) ==
    IF i > Len(order) THEN st
    ELSE CheckFileRefs(FileRefFinding(st, w, order[i]), w, order, i + 1)

ValidateFileReferencesResult(st, w, b, seed) ==
    CheckFileRefs(st, w, SetOrder(ReferencedFiles(b), seed), 1)

\* ------------------------------------------------------------------ verdict
\* return len(self.errors) == 0
ReturnValue(errs) == IF Len(errs) = 0 THEN "True" ELSE "False"

\* the RESULT line with the two tests in the other order
VerdictWarningsFirst(errs, warns) ==
    IF Len(warns) > 0 THEN "PASSED with warnings"
    ELSE IF Len(errs) > 0 THEN "FAILED"
    ELSE "PASSED"

\* the RESULT line of print_report
Verdict(errs, warns) ==
    IF Len(errs) > 0 THEN "FAILED"
    ELSE IF Len(warns) > 0 THEN "PASSED with warnings"
    ELSE "PASSED"


\* ------------------------------------------------------------ directories
Chars_my_skill == <<"m", "y", "-", "s", "k", "i", "l", "l">>
Chars_my_skill_2 == <<"m", "y", "-", "s", "k", "i", "l", "l", "-", "2">>
Chars_My_Skill == <<"M", "y", "_", "S", "k", "i", "l", "l">>
Chars_leading == <<"-", "l", "e", "a", "d", "i", "n", "g">>
\* the directory name in another case
Chars_My_Skill_dir == <<"M", "y", "-", "S", "k", "i", "l", "l">>
Chars_other_skill == <<"o", "t", "h", "e", "r", "-", "s", "k", "i", "l", "l">>

NameAlphabet == {"a", "-", "A", "\n"}

RECURSIVE SeqsUpTo(_, _)
SeqsUpTo(A, n) ==
    IF n = 0 THEN {<<>>}
    ELSE LET shorter == SeqsUpTo(A, n - 1)
         IN  shorter \cup {Append(x, a) : x \in shorter, a \in A}

ShortNames == SeqsUpTo(NameAlphabet, MaxNameLen)

ExampleNames ==
    { Chars_my_skill, Chars_my_skill_2, Chars_My_Skill, Chars_leading, Chars_other_skill,
      Chars_My_Skill_dir,
      Pad(<<>>, NameLimit, "a"), Pad(<<>>, NameLimit + 1, "a"),
      Pad(<<"a", "-">>, NameLimit + 1, "b"), Pad(<<"A">>, NameLimit + 1, "a") }

DescCue == <<"U", "s", "e", " ", "W", "h", "e", "n", " ", "x">>
DescNoCue == <<"a", "b", "c">>

ExampleDescs ==
    { <<>>, DescCue, DescNoCue,
      Pad(DescCue, DescSoftLimit, "x"), Pad(DescCue, DescSoftLimit + 1, "x"),
      Pad(DescNoCue, DescSoftLimit + 1, "x"),
      Pad(DescCue, DescHardLimit, "x"), Pad(DescCue, DescHardLimit + 1, "x"),
      Pad(DescNoCue, DescHardLimit + 1, "x") }

\* a field left out of the metadata
Absent == Val("absent", <<>>)

\* the lines of a metadata block giving name n and description d
MetaLines(n, d) ==
    CASE n = Absent /\ d = Absent -> <<>>
      [] n = Absent /\ d # Absent -> <<KV("description", d)>>
      [] n # Absent /\ d = Absent -> <<KV("name", n)>>
      [] OTHER -> <<KV("name", n), NL, KV("description", d)>>

ValidMeta == MetaLines(StrVal(Chars_my_skill), StrVal(DescCue))

\* a document with both delimiter lines
Document(meta, b) == <<D, NL>> \o meta \o <<NL, D, NL>> \o b

Ref_run == <<"scripts/", "run.sh">>
Ref_tmpl == <<"templates/", "t.md">>
Ref_guide == <<"references/", "guide.md">>
Ref_label == <<"guide">>
Ref_http == <<"http", "://example.com">>

PlainBody == <<W(3), NL>>
BusyBody == <<W(1), SP, CRED(1), NL, SPAN(Ref_run), NL>>

\* bodies without file references
TextBodies ==
    { <<>>, PlainBody, <<W(WordLimit)>>, <<W(WordLimit + 1)>>,
      <<W(WordLimit), CRED(1)>>, <<W(WordLimit), SP, CRED(1)>>,
      <<W(1), SP, CRED(1), NL>>, <<CRED(3), NL, CRED(1), NL, CRED(1), NL>>,
      <<CRED(4), SP, CRED(2)>>,
      <<SPAN(<<"foo/", "x">>)>>, <<SPAN(<<"scripts/">>)>>,
      <<LINK(<<"docs">>, Ref_http)>>, <<LINK(<<>>, <<"x.md">>)>> }

\* bodies with file references
RefBodies ==
    { <<SPAN(Ref_run)>>,
      <<SPAN(Ref_run), SP, SPAN(Ref_run), NL>>,
      <<SPAN(Ref_run), NL, SPAN(Ref_tmpl)>>,
      <<LINK(Ref_label, Ref_guide)>>,
      <<LINK(<<" ", "guide">>, <<" ", "references/", "guide.md", " ">>)>>,
      <<LINK(Ref_run, <<"x.md">>), SP, SPAN(Ref_run)>>,
      <<LINK(<<"run">>, Ref_run), SP, SPAN(Ref_run)>>,
      <<LINK(<<"a">>, Ref_http), SP, W(1), SP, LINK(<<"b">>, <<"c.md">>)>>,
      <<LINK(<<"a">>, Ref_http), NL, LINK(<<"b">>, <<"c.md">>)>>,
      <<LINK(<<"http", " docs">>, <<"guide.md">>)>>,
      <<SPAN(<<"assets/", "a.png">>), SP, LINK(<<"r">>, <<"references/", "r.md">>)>> }

\* what a body may be taken to refer to: the strings the code extracts and
\* the targets of its links
Mentioned(b) ==
    ReferencedFiles(b)
      \cup {Strip(b[i].s) : i \in {x \in 1..Len(b) : b[x].t \in {"link", "span"}}}

World(dir, md, text, files) ==
    [dir |-> dir, md |-> md, dir_name |-> Chars_my_skill, text |-> text, files |-> files]

\* directories whose SKILL.md cannot be read
UnreadableWorlds ==
    { World("missing", "missing", <<>>, {}),
      World("notdir", "missing", <<>>, {}),
      World("dir", "missing", <<>>, {}),
      World("dir", "notfile", <<>>, {}),
      World("dir", "undecodable", Document(ValidMeta, PlainBody), {}) }

Readable(text, files) == World("dir", "file", text, files)

\* every name, with a valid description and body
NameWorlds ==
    { Readable(Document(MetaLines(StrVal(n), StrVal(DescCue)), PlainBody), {}) :
        n \in ShortNames \cup ExampleNames }

\* every description, with a valid name and body
DescWorlds ==
    { Readable(Document(MetaLines(StrVal(Chars_my_skill), StrVal(d)), PlainBody), {}) :
        d \in ExampleDescs }

FieldValues(strs) == {Absent, NoneVal, IntVal, ListVal} \cup {StrVal(x) : x \in strs}

\* names and descriptions of every type, over two bodies
FieldWorlds ==
    { Readable(Document(MetaLines(n, d), b), {}) :
        n \in FieldValues({Chars_my_skill, Chars_My_Skill}),
        d \in FieldValues({DescCue, DescNoCue, Pad(DescNoCue, DescHardLimit + 1, "x")}),
        b \in {PlainBody, BusyBody} }

\* metadata blocks that are not a mapping of the two fields
OddMetas ==
    { <<COMMENT>>, <<SCALAR(NoneVal)>>, <<SCALAR(IntVal)>>, <<SCALAR(ListVal)>>,
      <<SCALAR(StrVal(<<"m", "y", " ", "n", "a", "m", "e">>))>>,
      <<SCALAR(StrVal(KeyChars("description")))>>,
      <<SCALAR(StrVal(<<"p", "l", "a", "i", "n">>))>>,
      <<W(2)>>, <<BAD>>, <<KV("name", StrVal(Chars_my_skill)), NL, BAD>>,
      <<KV("name", StrVal(Chars_My_Skill)), NL, KV("name", StrVal(Chars_my_skill)),
        NL, KV("description", StrVal(DescCue))>>,
      ValidMeta \o <<NL, KV("license", StrVal(<<"M", "I", "T">>))>> }

OddMetaWorlds ==
    { Readable(Document(m, b), {}) : m \in OddMetas, b \in {PlainBody, BusyBody} }

\* every body, with valid metadata, over every set of files on disk
BodyWorlds ==
    { Readable(Document(ValidMeta, b), {}) : b \in TextBodies }
      \cup UNION { { Readable(Document(ValidMeta, b), f) : f \in SUBSET Mentioned(b) } :
                   b \in RefBodies }

\* metadata the decoder rejects, over every body
BadMetaWorlds ==
    { Readable(Document(<<BAD>>, b), {}) : b \in TextBodies \cup RefBodies }
      \cup { Readable(Document(<<BAD>>, b), Mentioned(b)) : b \in RefBodies }

\* texts that frame the metadata block in other ways
OddTexts ==
    { <<>>,
      <<D, NL>> \o ValidMeta \o <<NL, D>>,
      <<D, NL, D, NL>> \o PlainBody,
      <<D, NL, NL, D, NL>> \o PlainBody,
      <<W(1), NL>> \o Document(ValidMeta, PlainBody),
      <<NL>> \o Document(ValidMeta, PlainBody),
      <<D, SP, NL>> \o ValidMeta \o <<NL, D, SP, NL>> \o PlainBody,
      <<D, NL, NL>> \o ValidMeta \o <<NL, D, NL>> \o PlainBody,
      Document(ValidMeta, <<NL, NL>> \o PlainBody),
      Document(ValidMeta, <<W(1), NL, D, NL, W(2)>>),
      <<D, NL>> \o ValidMeta \o <<NL>> \o PlainBody,
      <<D, NL, NL, D, NL, W(1), NL, D, NL, W(2)>> }

OddTextWorlds == { Readable(t, {}) : t \in OddTexts }

Worlds ==
    UnreadableWorlds \cup NameWorlds \cup DescWorlds \cup FieldWorlds
      \cup OddMetaWorlds \cup BadMetaWorlds \cup BodyWorlds \cup OddTextWorlds

\* the reference strings the validator can put in referenced_files here
RefUniverse(w) ==
    IF w.md = "file" /\ MatchFrontmatter(w.text).ok
    THEN ReferencedFiles(MatchFrontmatter(w.text).body)
    ELSE {}


\* ------------------------------------------------------------------ actions
InitOn(dirs) ==
    /\ world \in dirs
    /\ procs = 0
    /\ hashseed = <<>>
    /\ pc = "start"
    /\ calls = 0
    /\ errors = <<>>
    /\ warnings = <<>>
    /\ passes = <<>>
    /\ frontmatter = None
    /\ body = NoBody
    /\ is_valid = "unset"
    /\ exit_status = -1
    /\ out = <<>>

Init == InitOn(Worlds)

Current == Lists(errors, warnings, passes)

\* the lists take the value st; the method returns to pc value next, or the
\* exception it raised leaves validate() and main() and ends the process
Finish(st, next) ==
    /\ errors' = st.e
    /\ warnings' = st.w
    /\ passes' = st.p
    /\ pc' = IF st.x THEN "crashed" ELSE next
    /\ exit_status' = IF st.x THEN 1 ELSE exit_status

\* main(): validator = SkillValidator(args.skill_directory), in a process
\* that has just started
Construct ==
    /\ pc = "start"
    /\ procs' = procs + 1
    /\ hashseed' \in Perms(RefUniverse(world))
    /\ pc' = "constructed"
    /\ calls' = 0
    /\ errors' = <<>>
    /\ warnings' = <<>>
    /\ passes' = <<>>
    /\ frontmatter' = None
    /\ body' = NoBody
    /\ is_valid' = "unset"
    /\ exit_status' = -1
    /\ UNCHANGED <<world, out>>

\* validate() is entered and calls _check_directory_exists()
CheckDirectoryExists ==
    /\ pc = "constructed"
    /\ calls' = calls + 1
    /\ Finish(CheckDirectoryExistsResult(Current, world), "check_skill_md")
    /\ UNCHANGED <<world, procs, hashseed, frontmatter, body, is_valid, out>>

CheckSkillMdExists ==
    /\ pc = "check_skill_md"
    /\ Finish(CheckSkillMdExistsResult(Current, world), "exists")
    /\ UNCHANGED <<world, procs, hashseed, calls, frontmatter, body, is_valid, out>>

\* if not self.skill_path.exists() or not (...).exists(): return False
EarlyReturn ==
    /\ pc = "exists"
    /\ MustReturnEarly(world)
    /\ is_valid' = "False"
    /\ pc' = "returned"
    /\ UNCHANGED <<world, procs, hashseed, calls, errors, warnings, passes,
                   frontmatter, body, exit_status, out>>

ParseSkillMd ==
    /\ pc = "exists"
    /\ ~MustReturnEarly(world)
    /\ LET r == ParseSkillMdResult(world)
       IN  /\ frontmatter' = r.fm
           /\ body' = r.body
           /\ errors' = errors \o r.e
           /\ passes' = passes \o r.p
    /\ pc' = "frontmatter"
    /\ UNCHANGED <<world, procs, hashseed, calls, warnings, is_valid, exit_status, out>>

ValidateYamlFrontmatter ==
    /\ pc = "frontmatter"
    /\ frontmatter # None
    /\ Finish(ValidateYamlFrontmatterResult(Current, frontmatter), "name_matching")
    /\ UNCHANGED <<world, procs, hashseed, calls, frontmatter, body, is_valid, out>>

\* if frontmatter is not None: not taken
SkipFrontmatter ==
    /\ pc = "frontmatter"
    /\ frontmatter = None
    /\ pc' = "body"
    /\ UNCHANGED <<world, procs, hashseed, calls, errors, warnings, passes,
                   frontmatter, body, is_valid, exit_status, out>>

ValidateNameMatching ==
    /\ pc = "name_matching"
    /\ Finish(ValidateNameMatchingResult(Current, frontmatter, world.dir_name), "description")
    /\ UNCHANGED <<world, procs, hashseed, calls, frontmatter, body, is_valid, out>>

ValidateDescription ==
    /\ pc = "description"
    /\ Finish(ValidateDescriptionResult(Current, frontmatter), "body")
    /\ UNCHANGED <<world, procs, hashseed, calls, frontmatter, body, is_valid, out>>

ValidateBodyContent ==
    /\ pc = "body"
    /\ ~body.none
    /\ Finish(ValidateBodyContentResult(Current, body.text), "file_references")
    /\ UNCHANGED <<world, procs, hashseed, calls, frontmatter, body, is_valid, out>>

\* if body is not None: not taken
SkipBody ==
    /\ pc = "body"
    /\ body.none
    /\ pc' = "return"
    /\ UNCHANGED <<world, procs, hashseed, calls, errors, warnings, passes,
                   frontmatter, body, is_valid, exit_status, out>>

ValidateFileReferences ==
    /\ pc = "file_references"
    /\ Finish(ValidateFileReferencesResult(Current, world, body.text, hashseed), "return")
    /\ UNCHANGED <<world, procs, hashseed, calls, frontmatter, body, is_valid, out>>

\* return len(self.errors) == 0; the locals of validate() are gone
Return ==
    /\ pc = "return"
    /\ is_valid' = ReturnValue(errors)
    /\ frontmatter' = None
    /\ body' = NoBody
    /\ pc' = "returned"
    /\ UNCHANGED <<world, procs, hashseed, calls, errors, warnings, passes, exit_status, out>>

\* what print_report writes: the three groups in order and the RESULT line,
\* tagged with the process and the number of validate() calls before it
Report ==
    [proc |-> procs, calls |-> calls,
     passes |-> passes, warnings |-> warnings, errors |-> errors,
     verdict |-> Verdict(errors, warnings)]

\* main(): validator.print_report()
PrintReport ==
    /\ pc = "returned"
    /\ Len(out) < MaxOut
    /\ out' = Append(out, Report)
    /\ pc' = "printed"
    /\ UNCHANGED <<world, procs, hashseed, calls, errors, warnings, passes,
                   frontmatter, body, is_valid, exit_status>>

\* main(): sys.exit(0 if is_valid else 1)
Exit ==
    /\ pc = "printed"
    /\ exit_status' = IF is_valid = "True" THEN 0 ELSE 1
    /\ pc' = "exited"
    /\ UNCHANGED <<world, procs, hashseed, calls, errors, warnings, passes,
                   frontmatter, body, is_valid, out>>

Next ==
    \/ Construct
    \/ CheckDirectoryExists
    \/ CheckSkillMdExists
    \/ EarlyReturn
    \/ ParseSkillMd
    \/ ValidateYamlFrontmatter
    \/ SkipFrontmatter
    \/ ValidateNameMatching
    \/ ValidateDescription
    \/ ValidateBodyContent
    \/ SkipBody
    \/ ValidateFileReferences
    \/ Return
    \/ PrintReport
    \/ Exit

\* one run of main() on a directory
Spec == Init /\ [][Next]_vars

\* ------------------------------------------ other callers of the class
\* a caller that holds the validator calls validate() on it once more
ValidateAgain ==
    /\ pc \in {"returned", "printed"}
    /\ calls < MaxCalls
    /\ pc' = "constructed"
    /\ UNCHANGED <<world, procs, hashseed, calls, errors, warnings, passes,
                   frontmatter, body, is_valid, exit_status, out>>

\* a caller calls print_report() before any validate(), or once more
PrintReportAgain ==
    /\ pc \in {"constructed", "printed"}
    /\ Len(out) < MaxOut
    /\ out' = Append(out, Report)
    /\ UNCHANGED <<world, procs, hashseed, pc, calls, errors, warnings, passes,
                   frontmatter, body, is_valid, exit_status>>

\* the program is run once more on the same directory, in a new process
RunAgain ==
    /\ pc \in {"exited", "crashed"}
    /\ procs < MaxProcs
    /\ pc' = "start"
    /\ UNCHANGED <<world, procs, hashseed, calls, errors, warnings, passes,
                   frontmatter, body, is_valid, exit_status, out>>

\* directories for the runs with several calls and processes
RunWorlds ==
    UnreadableWorlds
      \cup { Readable(Document(m, BusyBody), {}) :
               m \in {ValidMeta, <<>>, <<BAD>>, <<SCALAR(IntVal)>>,
                      MetaLines(StrVal(Chars_My_Skill), IntVal),
                      MetaLines(Absent, StrVal(DescNoCue))} }
      \cup { Readable(Document(ValidMeta, <<SPAN(Ref_run), NL, SPAN(Ref_tmpl)>>), f) :
               f \in {{}, {Ref_run}, {Ref_run, Ref_tmpl}} }
      \cup { Readable(Document(ValidMeta, PlainBody), {}),
             Readable(<<W(1), NL>> \o Document(ValidMeta, PlainBody), {}) }

InitRuns == InitOn(RunWorlds)

NextRuns == Next \/ ValidateAgain \/ PrintReportAgain \/ RunAgain

\* any number of processes, validate() calls and print_report() calls
SpecRuns == InitRuns /\ [][NextRuns]_vars

TypeOK ==
    /\ pc \in {"start", "constructed", "check_skill_md", "exists", "frontmatter",
               "name_matching", "description", "body", "file_references", "return",
               "returned", "printed", "exited", "crashed"}
    /\ procs \in 0..MaxProcs
    /\ calls \in 0..MaxCalls
    /\ is_valid \in {"unset", "True", "False"}
    /\ exit_status \in {-1, 0, 1}
    /\ Len(out) <= MaxOut

\* ------------------------------------------------------------- properties
\* the first validate() call on a freshly constructed validator has returned
Done == pc \in {"returned", "printed", "exited"} /\ calls = 1

\* SKILL.md can be read as text
CanRead(w) == w.dir = "dir" /\ w.md = "file"
\* the split of the text and the decoding of its metadata block
Split == MatchFrontmatter(world.text)
Decoded == SafeLoad(Split.fm)

\* how often finding f occurs in list l
Count(l, f) == Cardinality({i \in 1..Len(l) : l[i] = f})
Messages(l) == {l[i].msg : i \in 1..Len(l)}

\* C1: in every printed report the verdict line is FAILED exactly when the
\* report has an Error finding, PASSED with warnings exactly when it has no
\* Error and at least one Warning, PASSED otherwise; whenever validate() has
\* returned, on the early return too, it returned True exactly when there is
\* no Error finding, and a process that exits does so with status 0 exactly
\* then.
C1_VerdictMatchesFindings ==
    /\ \A i \in 1..Len(out) :
          /\ out[i].verdict = "FAILED" <=> Len(out[i].errors) > 0
          /\ out[i].verdict = "PASSED with warnings" <=>
                 (Len(out[i].errors) = 0 /\ Len(out[i].warnings) > 0)
          /\ out[i].verdict = "PASSED" <=>
                 (Len(out[i].errors) = 0 /\ Len(out[i].warnings) = 0)
          /\ out[i].verdict \in {"FAILED", "PASSED with warnings", "PASSED"}
    /\ pc \in {"returned", "printed", "exited"} => (is_valid = "True" <=> Len(errors) = 0)
    /\ pc = "exited" => (exit_status = 0 <=> Len(errors) = 0)

\* a report printed after the early return, with errors and a pass
C1_Witness ==
    /\ world.dir = "dir" /\ world.md = "missing"
    /\ pc = "exited" /\ exit_status = 1 /\ is_valid = "False"
    /\ Len(out) = 1 /\ out[1].calls = 1 /\ out[1].verdict = "FAILED"
    /\ Len(out[1].passes) > 0


\* the text has a metadata block the parser extracts
Delimited == CanRead(world) /\ Split.ok
\* ... and the block decodes
DecodedOk == Delimited /\ Decoded.ok
Meta == Decoded.doc

AllFindings == Range(errors) \cup Range(warnings) \cup Range(passes)

MissingField(field) == Finding("Missing required field in YAML", <<field>>, <<>>, 0)
RefMissing(r) == Finding("Referenced file does not exist", r, <<>>, 0)
RefExists(r) == Finding("Referenced file exists", r, <<>>, 0)
RefMessages == {"Referenced file does not exist", "Referenced file exists"}

\* findings of the checks made before the text is parsed, and of reading it
InputMessages ==
    { "Directory does not exist", "Path is not a directory", "Directory exists",
      "SKILL.md file not found (case-sensitive)", "SKILL.md exists but is not a file",
      "SKILL.md file exists", "Failed to read SKILL.md" }

\* findings of the rules on the metadata
MetaMessages ==
    { "YAML frontmatter is valid",
      "Missing required field in YAML", "Required field present",
      "Field 'name' must be a string", "Field 'description' must be a string",
      "Skill name exceeds 64 characters",
      "Skill name must be hyphen-case (lowercase, hyphens only)",
      "Skill name format is valid",
      "Description exceeds 1024 characters", "Description is chars (recommended ~200)",
      "Description length appropriate",
      "Directory name does not match YAML name", "Directory name matches YAML name",
      "Description should explain WHEN to use the skill (contains no 'when' indicators)",
      "Description explains when to use the skill" }

\* the body rules and the reference checks have run on body text b
BodyRulesRan(b) ==
    /\ IF WordCount(b) > WordLimit
       THEN Count(warnings, Finding("SKILL.md body has words (recommended <5,000)",
                                    <<>>, <<>>, WordCount(b))) = 1
       ELSE Count(passes, Finding("SKILL.md body has words (<5,000)",
                                  <<>>, <<>>, WordCount(b))) = 1
    /\ \A p \in 1..4 :
          CredentialSearch(b, p) <=>
              Finding("Possible hardcoded credential detected (pattern)",
                      <<CredentialKeyword(p)>>, <<>>, 0) \in Range(warnings)
    /\ \A r \in ReferencedFiles(b) : RefMissing(r) \in Range(errors) \/ RefExists(r) \in Range(passes)

\* a field is absent from the metadata, an empty block counting as an empty
\* mapping
FieldAbsent(field) == Meta.ty = "none" \/ (Meta.ty = "map" /\ field \notin DOMAIN Meta.m)

\* C2: for a readable document whose metadata block is delimited and decodes
\* to a mapping or to nothing, each of name and description that is absent
\* has exactly one missing-required-field Error naming it and the run fails,
\* and no such Error names a field that is present.
C2_MissingFieldIsError ==
    (Done /\ DecodedOk /\ Meta.ty \in {"map", "none"}) =>
        \A field \in {"name", "description"} :
            IF FieldAbsent(field)
            THEN is_valid = "False" /\ Count(errors, MissingField(field)) = 1
            ELSE Count(errors, MissingField(field)) = 0

\* the listed validity conditions
ValidDocument ==
    /\ DecodedOk
    /\ Meta.ty = "map"
    /\ {"name", "description"} \subseteq DOMAIN Meta.m
    /\ Meta.m["name"] = StrVal(world.dir_name)
    /\ Len(Meta.m["name"].s) <= NameLimit
    /\ HyphenCase(Meta.m["name"].s)
    /\ Meta.m["description"].ty = "str"
    /\ Len(Meta.m["description"].s) <= DescSoftLimit
    /\ HasWhen(Lower(Meta.m["description"].s))
    /\ WordCount(Split.body) <= WordLimit
    /\ \A p \in 1..4 : ~CredentialSearch(Split.body, p)

CleanPass == Len(errors) = 0 /\ Len(warnings) = 0 /\ is_valid = "True"

RefsNamed == {f.a : f \in {g \in Range(errors) \cup Range(passes) : g.msg \in RefMessages}}

\* the reference strings of a body when a link contributes its target
TargetRefs(b) ==
    {r \in {Strip(g) : g \in Range(LinkGroup2(b, 1)) \cup SpanGroup1(b)} :
        r # <<>> /\ ~StartsWithHttp(r)}

\* C4: the strings resolved and named by the reference findings are, for
\* every markdown link, its trimmed target and not its label, and a link
\* whose target begins with http contributes none.
C4_LinkTargetIsResolved == (Done /\ Delimited) => RefsNamed = TargetRefs(Split.body)

\* C5: after validate() there is exactly one reference finding for each
\* distinct reference string extracted from the body, however often and by
\* however many patterns it occurs: a Pass if the path exists under the
\* directory, an Error naming it if not; so for the inline span
\* scripts/run.sh.
C5_OneFindingPerReference ==
    (Done /\ Delimited) =>
        /\ \A r \in ReferencedFiles(Split.body) :
              IF FileExists(world, r)
              THEN Count(passes, RefExists(r)) = 1 /\ Count(errors, RefMissing(r)) = 0
              ELSE Count(errors, RefMissing(r)) = 1 /\ Count(passes, RefExists(r)) = 0
        /\ Cardinality({i \in 1..Len(errors) : errors[i].msg \in RefMessages})
             + Cardinality({i \in 1..Len(passes) : passes[i].msg \in RefMessages})
           = Cardinality(ReferencedFiles(Split.body))
        /\ (\E i \in 1..Len(Split.body) : Split.body[i] = SPAN(Ref_run)) =>
              IF Ref_run \in world.files
              THEN Count(passes, RefExists(Ref_run)) = 1 /\ Count(errors, RefMissing(Ref_run)) = 0
              ELSE Count(errors, RefMissing(Ref_run)) = 1 /\ Count(passes, RefExists(Ref_run)) = 0

\* the same string extracted by the link pattern and by a span pattern
C5_Witness ==
    /\ Done
    /\ Split.body = <<LINK(Ref_run, <<"x.md">>), SP, SPAN(Ref_run)>>
    /\ Ref_run \in world.files
    /\ Count(passes, RefExists(Ref_run)) = 1

SameContent(r1, r2) ==
    /\ r1.passes = r2.passes
    /\ r1.warnings = r2.warnings
    /\ r1.errors = r2.errors
    /\ r1.verdict = r2.verdict

\* C6: any two reports printed after the single validate() call of a fresh
\* validator on the same unmodified directory have the same findings in the
\* same order and the same verdict.
C6_SameReportEveryRun ==
    \A i, j \in 1..Len(out) :
        (out[i].calls = 1 /\ out[j].calls = 1) => SameContent(out[i], out[j])

C8_DecodeErrorKeepsBodyRules ==
    (Done /\ Delimited /\ ~Decoded.ok) =>
        /\ Count(errors, Finding("Invalid YAML frontmatter", Decoded.err, <<>>, 0)) = 1
        /\ Cardinality({i \in 1..Len(errors) : errors[i].msg = "Invalid YAML frontmatter"}) = 1
        /\ is_valid = "False"
        /\ \A f \in AllFindings : f.msg \notin MetaMessages
        /\ BodyRulesRan(Split.body)

C8_Witness ==
    /\ Done
    /\ Delimited /\ ~Decoded.ok
    /\ Split.body = BusyBody
    /\ Len(warnings) = 1
    /\ RefMissing(Ref_run) \in Range(errors)

\* C9: for a readable document with a delimited, decodable metadata block no
\* exception leaves validate(), whatever the block decodes to, and once
\* validate() has returned the body rules and reference checks have run.
C9_NoRuleRaises ==
    DecodedOk =>
        /\ pc # "crashed"
        /\ Done => BodyRulesRan(Split.body)

NameFormatErrors ==
    Cardinality({i \in 1..Len(errors) :
        errors[i].msg \in {"Skill name exceeds 64 characters",
                           "Skill name must be hyphen-case (lowercase, hyphens only)"}})
NameFormatPasses ==
    Cardinality({i \in 1..Len(passes) : passes[i].msg = "Skill name format is valid"})

\* C10: once the metadata rules have run on a string name, the name-format
\* rule has emitted at least one Error and no Pass if the name is longer
\* than 64 characters or is not made of lowercase-alphanumeric segments
\* joined by single hyphens, and one Pass and no Error otherwise.
C10_NameFormatErrorOrPass ==
    ( /\ calls = 1 /\ pc = "name_matching"
      /\ DecodedOk /\ Meta.ty = "map" /\ "name" \in DOMAIN Meta.m
      /\ Meta.m["name"].ty = "str" ) =>
        IF Len(Meta.m["name"].s) <= NameLimit /\ HyphenCase(Meta.m["name"].s)
        THEN NameFormatPasses = 1 /\ NameFormatErrors = 0
        ELSE NameFormatErrors >= 1 /\ NameFormatPasses = 0


\* the number of findings of list l whose message is one of msgs
CountMessages(l, msgs) == Cardinality({i \in 1..Len(l) : l[i].msg \in msgs})

\* the metadata decodes to a mapping that gives field a string
StringField(field) ==
    DecodedOk /\ Meta.ty = "map" /\ field \in DOMAIN Meta.m /\ Meta.m[field].ty = "str"

DescLengthMessages ==
    { "Description exceeds 1024 characters", "Description is chars (recommended ~200)",
      "Description length appropriate" }

\* C11: once the metadata rules have run on a string description of n
\* characters there is exactly one description-length finding, and it
\* reports n: a Pass if n <= 200, a Warning if 201 <= n <= 1024, an Error if
\* n >= 1025, the Error coming without a Warning.
C11_DescriptionLengthOneFinding ==
    (calls = 1 /\ pc = "name_matching" /\ StringField("description")) =>
        LET n == Len(Meta.m["description"].s)
            E == Finding("Description exceeds 1024 characters", <<>>, <<>>, n)
            Wn == Finding("Description is chars (recommended ~200)", <<>>, <<>>, n)
            P == Finding("Description length appropriate", <<>>, <<>>, n)
        IN  /\ CountMessages(errors, DescLengthMessages)
                 + CountMessages(warnings, DescLengthMessages)
                 + CountMessages(passes, DescLengthMessages) = 1
            /\ n <= DescSoftLimit => Count(passes, P) = 1
            /\ (DescSoftLimit + 1 <= n /\ n <= DescHardLimit) => Count(warnings, Wn) = 1
            /\ n >= DescHardLimit + 1 => Count(errors, E) = 1

C11_Witness ==
    /\ calls = 1 /\ pc = "name_matching"
    /\ StringField("description")
    /\ Len(Meta.m["description"].s) = DescHardLimit + 1
    /\ CountMessages(errors, DescLengthMessages) = 1
    /\ CountMessages(warnings, DescLengthMessages) = 0

NameMatchMessages ==
    {"Directory name does not match YAML name", "Directory name matches YAML name"}

\* C12: once the name/directory rule has run on a string name N there is
\* exactly one finding of the rule: a Pass if N is the base name of the
\* directory character for character, otherwise an Error that names both N
\* and the base name.
C12_NameMatchesDirectory ==
    (calls = 1 /\ pc = "description" /\ StringField("name")) =>
        LET N == Meta.m["name"].s IN
        /\ CountMessages(errors, NameMatchMessages)
             + CountMessages(warnings, NameMatchMessages)
             + CountMessages(passes, NameMatchMessages) = 1
        /\ IF N = world.dir_name
           THEN Count(passes, Finding("Directory name matches YAML name", N, <<>>, 0)) = 1
           ELSE Count(errors, Finding("Directory name does not match YAML name",
                                      world.dir_name, N, 0)) = 1

\* directory my-skill with name other-skill
C12_Witness ==
    /\ calls = 1 /\ pc = "description"
    /\ StringField("name")
    /\ world.dir_name = Chars_my_skill
    /\ Meta.m["name"].s = Chars_other_skill
    /\ Count(errors, Finding("Directory name does not match YAML name",
                             Chars_my_skill, Chars_other_skill, 0)) = 1


\* the place in the rule catalog of the rule a message belongs to, 0 for
\* the findings of the existence checks, the parser and the reference checks
CatalogRank(msg) ==
    CASE msg \in {"Missing required field in YAML", "Required field present"} -> 1
      [] msg \in {"Field 'name' must be a string", "Field 'description' must be a string"} -> 2
      [] msg \in {"Skill name exceeds 64 characters",
                  "Skill name must be hyphen-case (lowercase, hyphens only)",
                  "Skill name format is valid"} -> 3
      [] msg \in NameMatchMessages -> 4
      [] msg \in DescLengthMessages -> 5
      [] msg \in {"Description should explain WHEN to use the skill (contains no 'when' indicators)",
                  "Description explains when to use the skill"} -> 6
      [] msg \in {"SKILL.md body has words (recommended <5,000)",
                  "SKILL.md body has words (<5,000)"} -> 7
      [] msg = "Possible hardcoded credential detected (pattern)" -> 8
      [] OTHER -> 0

InCatalogOrder(l) ==
    \A i, j \in 1..Len(l) :
        (i < j /\ CatalogRank(l[i].msg) > 0 /\ CatalogRank(l[j].msg) > 0)
            => CatalogRank(l[i].msg) <= CatalogRank(l[j].msg)

\* C13: within each severity group the findings of the catalog rules stand
\* in catalog order (required fields, field types, name format,
\* name/directory match, description length, description intent, body
\* length, credential scan); so a name/directory-mismatch Error stands
\* before a description-too-long Error.
C13_CatalogOrder ==
    calls = 1 => InCatalogOrder(errors) /\ InCatalogOrder(warnings) /\ InCatalogOrder(passes)


CredentialMessage == "Possible hardcoded credential detected (pattern)"

\* the positions in body b where a match of a credential pattern starts: a
\* pattern runs to the last quote of its line, so a second assignment to the
\* same keyword on one line belongs to the match of the first
CredentialMatchStarts(b) ==
    {i \in 1..Len(b) :
        /\ b[i].t = "cred"
        /\ ~\E j \in 1..(i - 1) :
              /\ b[j].t = "cred" /\ b[j].n = b[i].n
              /\ \A k \in (j + 1)..(i - 1) : ~IsNl(b[k])}

\* one Warning for each match, in the order of the matches in the text
WarningPerMatch(b) ==
    LET starts == CredentialMatchStarts(b)
        at(k) == CHOOSE i \in starts : Cardinality({j \in starts : j < i}) = k - 1
    IN  [k \in 1..Cardinality(starts) |->
            Finding(CredentialMessage, <<CredentialKeyword(b[at(k)].n)>>, <<>>, 0)]

IsCredentialFinding(f) == f.msg = CredentialMessage

\* C14: after validate() the Warnings of the credential scan are one for
\* each match of a credential pattern in the body, a keyword matched k times
\* giving k Warnings, in the order of the matches in the body; a body
\* without a match has no finding of the scan in any list.
C14_WarningPerMatchInTextOrder ==
    (Done /\ Delimited) =>
        /\ SelectSeq(warnings, IsCredentialFinding) = WarningPerMatch(Split.body)
        /\ SelectSeq(errors, IsCredentialFinding) = <<>>
        /\ SelectSeq(passes, IsCredentialFinding) = <<>>


\* the metadata decodes to a mapping that gives field a value other than a
\* string
NonStringField(field) ==
    DecodedOk /\ Meta.ty = "map" /\ field \in DOMAIN Meta.m /\ Meta.m[field].ty # "str"

\* the findings of the checks that assume a string in the field
DownstreamMessages(field) ==
    IF field = "name"
    THEN { "Skill name exceeds 64 characters",
           "Skill name must be hyphen-case (lowercase, hyphens only)",
           "Skill name format is valid" } \cup NameMatchMessages
    ELSE DescLengthMessages
           \cup { "Description should explain WHEN to use the skill (contains no 'when' indicators)",
                  "Description explains when to use the skill" }

MustBeString(field) ==
    Finding(IF field = "name" THEN "Field 'name' must be a string"
            ELSE "Field 'description' must be a string", <<>>, <<>>, 0)

\* C15: for a field that is present and not a string, the run never holds a
\* finding of a downstream check of that field (name format and
\* name/directory match for name, description length and description intent
\* for description), and once the metadata rules have run it holds the
\* must-be-a-string Error of the field exactly once.
C15_NonStringSkipsDownstream ==
    calls = 1 =>
        \A field \in {"name", "description"} :
            NonStringField(field) =>
                /\ \A f \in AllFindings : f.msg \notin DownstreamMessages(field)
                /\ pc \notin {"start", "constructed", "check_skill_md", "exists", "frontmatter"}
                      => Count(errors, MustBeString(field)) = 1


\* the lines of text c, after the first, that are exactly the delimiter
DelimiterLines(c) ==
    {i \in 3..Len(c) : c[i] = D /\ IsNl(c[i - 1]) /\ (i = Len(c) \/ IsNl(c[i + 1]))}

\* the first line is exactly the delimiter and a later line is too
Framed(c) == Len(c) >= 2 /\ c[1] = D /\ IsNl(c[2]) /\ DelimiterLines(c) # {}

\* the lines between the first delimiter and the first later delimiter line
LinesBetween(c) == SubSeq(c, 3, Min(DelimiterLines(c)) - 2)

\* everything after the closing delimiter line
TextAfter(c) == SubSeq(c, Min(DelimiterLines(c)) + 2, Len(c))

MissingFrontmatter ==
    Finding("SKILL.md missing YAML frontmatter (must start with ---)", <<>>, <<>>, 0)

\* C16: once the parser has run on a readable text: if the first line is
\* exactly the delimiter and a later line is too, there is no
\* missing-frontmatter Error, the metadata is decoded from exactly the lines
\* between the first delimiter and the first later delimiter line, and the
\* body is everything after that line, unmodified; if the text does not
\* begin with the delimiter there is one missing-frontmatter Error, no
\* metadata and no body.
C16_ParserFraming ==
    (calls = 1 /\ pc = "frontmatter" /\ CanRead(world)) =>
        LET c == world.text
            y == SafeLoad(LinesBetween(c))
        IN  /\ Framed(c) =>
                  /\ Count(errors, MissingFrontmatter) = 0
                  /\ body = SomeBody(TextAfter(c))
                  /\ IF y.ok
                     THEN frontmatter = y.doc
                     ELSE Count(errors, Finding("Invalid YAML frontmatter", y.err, <<>>, 0)) = 1
            /\ (Len(c) = 0 \/ c[1] # D) =>
                  /\ Count(errors, MissingFrontmatter) = 1
                  /\ frontmatter = None
                  /\ body = NoBody


\* the lists after one validate() call on a validator just constructed for
\* directory w, in a process with string hash seed seed
ValidateOnce(w, seed) ==
    LET st0 == CheckSkillMdExistsResult(
                   CheckDirectoryExistsResult(Lists(<<>>, <<>>, <<>>), w), w)
        r == ParseSkillMdResult(w)
        st1 == [st0 EXCEPT !.e = @ \o r.e, !.p = @ \o r.p]
        a == ValidateYamlFrontmatterResult(st1, r.fm)
        b == IF a.x THEN a ELSE ValidateNameMatchingResult(a, r.fm, w.dir_name)
        st2 == IF r.fm = None THEN st1
               ELSE IF b.x THEN b ELSE ValidateDescriptionResult(b, r.fm)
    IN  IF MustReturnEarly(w) THEN st0
        ELSE IF st2.x \/ r.body.none THEN st2
        ELSE ValidateFileReferencesResult(
                 ValidateBodyContentResult(st2, r.body.text), w, r.body.text, seed)

\* C17: whenever validate() has returned, after however many calls on the
\* same validator and however many print_report() calls, the three lists are
\* those of a single validate() call; and print_report() leaves the three
\* lists unchanged.
C17_FreshFindingsEachRun ==
    /\ [](pc \in {"returned", "printed", "exited"} =>
             LET once == ValidateOnce(world, hashseed)
             IN  errors = once.e /\ warnings = once.w /\ passes = once.p)
    /\ [][out' # out => UNCHANGED <<errors, warnings, passes>>]_vars

====
